---------------------------- MODULE Spec2Model ----------------------------
(***************************************************************************)
(* Model of the text-to-speech training pipeline of DL-Art-School:         *)
(*   codes/data/audio/paired_voice_audio_dataset.py  (TextWavLoader,       *)
(*                                                    TextMelCollate)      *)
(*   codes/models/gpt_voice/gpt_tts_hf.py            (GptTtsHf)            *)
(*   codes/models/steps/losses.py                    (create_loss, losses) *)
(***************************************************************************)
EXTENDS Integers, Sequences, FiniteSets, TLC

VARIABLES
    \* ---- TextWavLoader.get_text and GptTtsHf.forward (text side)
    text,               \* the transcript handed to get_text: a sequence of characters
    use_bpe_tokenizer,  \* self.use_bpe_tokenizer
    vocab,              \* the tokenizer's table: symbol -> id
    got,                \* outcome of get_text: returned ids, or AssertionError
    fwd,                \* what forward built from text_inputs: inp, tar
    mel_targets,        \* the mel_targets tensor handed to forward: rows of codes
    wav_lengths,        \* the wav_lengths tensor handed to forward
    mel_length_compression,  \* self.mel_length_compression
    \* ---- create_loss and the loss terms' forward (losses.py)
    opt,                \* opt_loss, the options dict (self.opt is the same object)
    loss,               \* what create_loss gave: the loss term built, or the error
    state,              \* the training state: an ordered mapping key -> tensor
    calls,              \* number of forward calls made on the loss term
    out,                \* outcome of the last forward call
    geo,                \* a grid, the random alteration applied to it, and its undoing
    \* ---- TextWavLoader and TextMelCollate (paired_voice_audio_dataset.py)
    rng,                \* state of Python's global random generator
    ds,                 \* the two loader objects of the program
    audio,              \* what loading gives for each audio path (the files)
    pc,                 \* where the call of dataset[i] stands
    first,              \* the index dataset[i] was called with (the outermost frame)
    index,              \* the index of the running invocation of __getitem__
    sample,             \* what dataset[i] returned
    batch,              \* the samples gathered for collation
    collated            \* what TextMelCollate returned for the batch

textVars == <<text, use_bpe_tokenizer, vocab, got, fwd,
              mel_targets, wav_lengths, mel_length_compression>>

lossVars == <<opt, loss, state, calls, out, geo>>

dataVars == <<rng, ds, audio, pc, first, index, sample, batch, collated>>

vars == <<text, use_bpe_tokenizer, vocab, got, fwd,
          mel_targets, wav_lengths, mel_length_compression,
          opt, loss, state, calls, out, geo,
          rng, ds, audio, pc, first, index, sample, batch, collated>>

(***************************************************************************)
(* Bounds of the model.                                                    *)
(***************************************************************************)
MaxChars == 2       \* longest transcript handed to get_text
MaxPad   == 1       \* most zero padding added to a token row before forward
MaxState == 2       \* most keys held by the training state
MaxCalls == 2       \* most forward calls made on one loss term
MaxWav   == 3       \* longest waveform on disk, in samples
MaxText  == 2       \* the max_text_length configured, in tokens
BatchSize == 2      \* most samples gathered into one batch
MaxDim   == 2       \* most rows and most columns of a grid
MaxMel   == 2       \* widest mel_targets handed to forward, in codes

(***************************************************************************)
(* Program constants (gpt_tts_hf.py).                                      *)
(***************************************************************************)
NUMBER_TEXT_TOKENS == 256
START_TEXT_TOKEN   == 255
STOP_TEXT_TOKEN    == 0
START_MEL_TOKEN    == 8192
STOP_MEL_TOKEN     == 8193

(***************************************************************************)
(* Helpers on sequences.                                                   *)
(***************************************************************************)
SeqsUpTo(S, n) == UNION {[1..k -> S] : k \in 0..n}

Range(s) == {s[i] : i \in 1..Len(s)}

Zeros(n) == [i \in 1..n |-> 0]

(***************************************************************************)
(* Text normalisation: text.strip().lower()  (get_text, line 114).         *)
(***************************************************************************)
RawChars  == {" ", "a", "B"}
NormChars == {" ", "a", "b"}

\* The ids a tokenizer can produce: a sample of 0..NUMBER_TEXT_TOKENS-1 holding
\* the stop code 0, the BPE start/unknown code 1, an ordinary id and the top id.
TokenIds == {0, 1, 2, NUMBER_TEXT_TOKENS - 1}

Lower(c) == IF c = "B" THEN "b" ELSE c

RECURSIVE LStrip(_)
LStrip(s) == IF s # <<>> /\ Head(s) = " " THEN LStrip(Tail(s)) ELSE s

RECURSIVE RStrip(_)
RStrip(s) == IF s # <<>> /\ s[Len(s)] = " " THEN RStrip(SubSeq(s, 1, Len(s) - 1)) ELSE s

Strip(s) == RStrip(LStrip(s))

Normalise(s) == [i \in 1..Len(Strip(s)) |-> Lower(Strip(s)[i])]

(***************************************************************************)
(* self.tokenizer.encode(...).ids: the tokenizer (the BPE Tokenizer read   *)
(* from the vocabulary file, or CharacterTokenizer) maps the normalised    *)
(* text to ids through its table, which is fixed when the loader is built. *)
(***************************************************************************)
Encode(voc, s) == [i \in 1..Len(s) |-> voc[s[i]]]

(***************************************************************************)
(* TextWavLoader.get_text (lines 113-121).                                 *)
(***************************************************************************)
NotCalled     == [status |-> "not called", ids |-> <<>>]
Returned(ids) == [status |-> "returned", ids |-> ids]
Raised(exc)   == [status |-> exc, ids |-> <<>>]

\* A plausible slip: the stop-code assertion left out.
get_text_no_stop_assert(bpe, voc, s) ==
    LET tokens == Encode(voc, Normalise(s))
    IN  IF bpe /\ 1 \in Range(tokens) THEN Raised("AssertionError")
        ELSE Returned(tokens)

\* A plausible slip: the start/unknown assertion left out.
get_text_no_unk_assert(bpe, voc, s) ==
    LET tokens == Encode(voc, Normalise(s))
    IN  IF 0 \in Range(tokens) THEN Raised("AssertionError")
        ELSE Returned(tokens)

get_text(bpe, voc, s) ==
    LET tokens == Encode(voc, Normalise(s))
    IN  IF bpe /\ 1 \in Range(tokens) THEN Raised("AssertionError")
        ELSE IF 0 \in Range(tokens) THEN Raised("AssertionError")
        ELSE Returned(tokens)

(***************************************************************************)
(* GptTtsHf.build_aligned_inputs_and_targets (lines 71-74).                *)
(***************************************************************************)
build_aligned_inputs_and_targets(input, start_token, stop_token) ==
    [inp |-> <<start_token>> \o input, tar |-> input \o <<stop_token>>]

NotBuilt == [status |-> "not built", inp |-> <<>>, tar |-> <<>>, real |-> 0,
             mel_inp |-> <<>>, mel_tar |-> <<>>]

(***************************************************************************)
(* GptTtsHf.forward, the padding of mel_targets (lines 104-108).           *)
(***************************************************************************)
\* mel_lengths = wav_lengths // self.mel_length_compression
MelLengths(wl, compression) == [b \in 1..Len(wl) |-> wl[b] \div compression]

\* A plausible slip: the padding written from the position after mel_lengths[b].
SetMelPaddingFromNext(mt, mel_lengths) ==
    [b \in 1..Len(mt) |->
        IF mel_lengths[b] < Len(mt[b])
        THEN [j \in 1..Len(mt[b]) |->
                 IF j - 1 >= mel_lengths[b] + 1 THEN STOP_MEL_TOKEN ELSE mt[b][j]]
        ELSE mt[b]]

\* The loop of lines 106-108: mel_targets[b, mel_lengths[b]:] = STOP_MEL_TOKEN
\* for the rows with mel_lengths[b] < mel_targets.shape[-1].  Position j of
\* the code is index j + 1 here.
SetMelPadding(mt, mel_lengths) ==
    [b \in 1..Len(mt) |->
        IF mel_lengths[b] < Len(mt[b])
        THEN [j \in 1..Len(mt[b]) |->
                 IF j - 1 >= mel_lengths[b] THEN STOP_MEL_TOKEN ELSE mt[b][j]]
        ELSE mt[b]]

MelCodes == {0, 1}

Compressions == {1, 2}

\* The mel_targets and wav_lengths of a batch of one or two rows.
MelBatches ==
    UNION {[mel : [1..b -> [1..m -> MelCodes]], wav : [1..b -> 0..(2 * MaxMel)]] :
              b \in 1..2, m \in 1..MaxMel}

(***************************************************************************)
(* The text pipeline: a loader is built with a tokenizer, get_text is      *)
(* called on a transcript, and the returned row, zero-padded as the        *)
(* dataset or the collate function pads it, is given to forward.           *)
(***************************************************************************)
\* The table of the loader of the dataset specifications.
VocabOfFixture == [c \in NormChars |-> IF c = "a" THEN 2 ELSE IF c = "b" THEN 1
                                                 ELSE NUMBER_TEXT_TOKENS - 1]

PinMel ==
    /\ mel_targets = << <<0, 0>> >>
    /\ wav_lengths = <<1>>
    /\ mel_length_compression = 1

InitText ==
    /\ text \in SeqsUpTo(RawChars, MaxChars)
    /\ use_bpe_tokenizer \in BOOLEAN
    /\ vocab \in [NormChars -> TokenIds]
    /\ got = NotCalled
    /\ fwd = NotBuilt
    /\ PinMel

PinText ==
    /\ text = <<>>
    /\ use_bpe_tokenizer = TRUE
    /\ vocab = VocabOfFixture
    /\ got = NotCalled
    /\ fwd = NotBuilt
    /\ PinMel

\* The batches forward is tried on, with one transcript.
InitMel ==
    /\ text = <<"a">>
    /\ use_bpe_tokenizer = TRUE
    /\ vocab = VocabOfFixture
    /\ got = NotCalled
    /\ fwd = NotBuilt
    /\ \E mb \in MelBatches : mel_targets = mb.mel /\ wav_lengths = mb.wav
    /\ mel_length_compression \in Compressions

GetText ==
    /\ got = NotCalled
    /\ got' = get_text(use_bpe_tokenizer, vocab, text)
    /\ UNCHANGED <<text, use_bpe_tokenizer, vocab, fwd>>
    /\ UNCHANGED <<mel_targets, wav_lengths, mel_length_compression>>
    /\ UNCHANGED <<lossVars, dataVars>>

\* GptTtsHf.forward (lines 96-116): the padding of mel_targets is written into
\* the caller's tensor; text_inputs is the row returned by get_text,
\* right-padded with zeros; the aligned inputs and targets are built per row.
Forward(pad) ==
    /\ got.status = "returned"
    /\ fwd = NotBuilt
    /\ LET text_inputs == got.ids \o Zeros(pad)
           built == build_aligned_inputs_and_targets(text_inputs, START_TEXT_TOKEN,
                                                     STOP_TEXT_TOKEN)
           padded == SetMelPadding(mel_targets,
                                   MelLengths(wav_lengths, mel_length_compression))
           mel(b) == build_aligned_inputs_and_targets(padded[b], START_MEL_TOKEN,
                                                      STOP_MEL_TOKEN)
       IN  /\ mel_targets' = padded
           /\ fwd' = [status |-> "built", inp |-> built.inp, tar |-> built.tar,
                      real |-> Len(got.ids),
                      mel_inp |-> [b \in 1..Len(padded) |-> mel(b).inp],
                      mel_tar |-> [b \in 1..Len(padded) |-> mel(b).tar]]
    /\ UNCHANGED <<text, use_bpe_tokenizer, vocab, got>>
    /\ UNCHANGED <<wav_lengths, mel_length_compression>>
    /\ UNCHANGED <<lossVars, dataVars>>

NextText ==
    \/ GetText
    \/ \E pad \in 0..MaxPad : Forward(pad)

(***************************************************************************)
(* losses.py.  Python strings that the code formats are modelled as        *)
(* sequences of characters.                                                *)
(***************************************************************************)
K_lq  == <<"l", "q">>
K_hq  == <<"h", "q">>
K_gen == <<"g", "e", "n">>

Keys == {K_lq, K_hq, K_gen}

\* A tensor: its identity and its content.  Tensors made by an operation are
\* new objects (id 0); the tensors the state holds have the ids 1, 2, ...
Tensor(id, val) == [id |-> id, val |-> val]

Vals == {0, 1}

\* The draws of torch.randn_like, scaled.
Randn == {-1, 1}

\* opt['fake'] / opt['real']: a scalar key, or a list of keys.
Scalar(k)   == [islist |-> FALSE, items |-> <<k>>]
List(items) == [islist |-> TRUE, items |-> items]

KnownTypes == {"pix", "feature", "interpreted_feature", "generator_gan",
               "discriminator_gan", "geometric", "translational"}
OtherTypes == {"pixel", "gan"}
GanTypes   == {"gan", "ragan", "pixgan_fea"}

TransNames == {<<"t", "r">>, <<"b", "l">>, <<"b", "r">>}

(***************************************************************************)
(* create_loss (lines 10-27): the class whose constructor is called for a  *)
(* type string; NotImplementedError for every other string.                *)
(***************************************************************************)
NotCreated == [status |-> "not created", cls |-> "none"]
Created(c) == [status |-> "created", cls |-> c]
NoLoss(e)  == [status |-> e, cls |-> "none"]

\* A plausible slip: two branches of the chain swapped.
create_loss_swapped(opt_loss) ==
    LET type == opt_loss.type
    IN  IF type = "pix" THEN Created("PixLoss")
        ELSE IF type = "feature" THEN Created("FeatureLoss")
        ELSE IF type = "interpreted_feature" THEN Created("InterpretedFeatureLoss")
        ELSE IF type = "generator_gan" THEN Created("DiscriminatorGanLoss")
        ELSE IF type = "discriminator_gan" THEN Created("GeneratorGanLoss")
        ELSE IF type = "geometric" THEN Created("GeometricSimilarityGeneratorLoss")
        ELSE IF type = "translational" THEN Created("TranslationInvarianceLoss")
        ELSE NoLoss("NotImplementedError")

create_loss(opt_loss) ==
    LET type == opt_loss.type
    IN  IF type = "pix" THEN Created("PixLoss")
        ELSE IF type = "feature" THEN Created("FeatureLoss")
        ELSE IF type = "interpreted_feature" THEN Created("InterpretedFeatureLoss")
        ELSE IF type = "generator_gan" THEN Created("GeneratorGanLoss")
        ELSE IF type = "discriminator_gan" THEN Created("DiscriminatorGanLoss")
        ELSE IF type = "geometric" THEN Created("GeometricSimilarityGeneratorLoss")
        ELSE IF type = "translational" THEN Created("TranslationInvarianceLoss")
        ELSE NoLoss("NotImplementedError")

(***************************************************************************)
(* The training state: an ordered mapping, a sequence of entries           *)
(* [key, t] without repeated keys.                                         *)
(***************************************************************************)
HasKey(st, k) == \E i \in 1..Len(st) : st[i].key = k

Lookup(st, k) == st[CHOOSE i \in 1..Len(st) : st[i].key = k].t

\* extract_params_from_state (lines 31-36): the tensors of the state named by
\* params, a list or a scalar; KeyError when a name is not in the state.
extract_params_from_state(params, st) ==
    IF \A i \in 1..Len(params.items) : HasKey(st, params.items[i])
    THEN [status |-> "ok",
          p |-> [i \in 1..Len(params.items) |-> Lookup(st, params.items[i])]]
    ELSE [status |-> "KeyError", p |-> <<>>]

\* state[name] for a configured name: a list is no dictionary key.
StateAt(st, name) ==
    IF name.islist THEN [status |-> "TypeError", p |-> <<>>]
    ELSE extract_params_from_state(name, st)

NoOutcome == [status |-> "not called", args |-> <<>>, names |-> <<>>]

\* What a forward call leaves behind: the state, the options, and its outcome
\* (the error raised, or the values handed to the criterion / the network;
\* names: the input names TranslationInvarianceLoss looked up in the state).
Done(st, o, status, args) ==
    [state |-> st, opt |-> o, out |-> [status |-> status, args |-> args, names |-> <<>>]]

\* The outcome of a call that looked up the input names ns in the state.
LookedUp(d, ns) == [d EXCEPT !.out.names = ns]

ValsOf(p) == [i \in 1..Len(p) |-> p[i].val]

\* PixLoss.forward (lines 71-72).
PixLoss_forward(o, st) ==
    LET f == StateAt(st, o.fake)
        r == StateAt(st, o.real)
    IN  IF f.status # "ok" THEN Done(st, o, f.status, <<>>)
        ELSE IF r.status # "ok" THEN Done(st, o, r.status, <<>>)
        ELSE Done(st, o, "returned", ValsOf(f.p \o r.p))

\* FeatureLoss.forward (lines 85-92) and InterpretedFeatureLoss.forward
\* (lines 110-113): state[real] is read first.
FeatureLoss_forward(o, st) ==
    LET r == StateAt(st, o.real)
        f == StateAt(st, o.fake)
    IN  IF r.status # "ok" THEN Done(st, o, r.status, <<>>)
        ELSE IF f.status # "ok" THEN Done(st, o, f.status, <<>>)
        ELSE Done(st, o, "returned", ValsOf(f.p \o r.p))

\* t + torch.randn_like(t) * self.noise: a new tensor.
AddNoise(t, d, noise) == Tensor(0, t.val + d * noise)

\* t.detach(): a new tensor object over the same content.
Detach(t) == Tensor(0, t.val)

\* The noise block of the GAN losses (lines 128-139, 167-178): the loop runs
\* over real and indexes fake with the same i.
Noisy(real, fake, dr, df, noise) ==
    IF Len(fake) < Len(real) THEN [status |-> "IndexError", real |-> <<>>, fake |-> <<>>]
    ELSE [status |-> "ok",
          real |-> [i \in 1..Len(real) |-> AddNoise(real[i], dr[i], noise)],
          fake |-> [i \in 1..Len(real) |-> AddNoise(fake[i], df[i], noise)]]

\* GeneratorGanLoss.forward (lines 124-151).
GeneratorGanLoss_forward(o, st, dr, df) ==
    LET r == extract_params_from_state(o.real, st)
        f == extract_params_from_state(o.fake, st)
        n == IF o.noise # 0 /\ r.status = "ok" /\ f.status = "ok"
             THEN Noisy(r.p, f.p, dr, df, o.noise)
             ELSE [status |-> "ok", real |-> r.p, fake |-> f.p]
    IN  IF r.status # "ok" THEN Done(st, o, r.status, <<>>)
        ELSE IF f.status # "ok" THEN Done(st, o, f.status, <<>>)
        ELSE IF n.status # "ok" THEN Done(st, o, n.status, <<>>)
        ELSE IF o.gan_type \in {"gan", "pixgan", "pixgan_fea"}
             THEN Done(st, o, "returned", ValsOf(n.fake))
        ELSE IF o.gan_type = "ragan"
             THEN Done(st, o, "returned", ValsOf(n.real \o n.fake))
        ELSE Done(st, o, "NotImplementedError", <<>>)

\* The state after "t += torch.randn_like(t) * noise" on the tensors named by
\* params: the addition lands in the tensors the state holds.
NoisedInPlace(st, params, d, noise) ==
    [i \in 1..Len(st) |->
        IF \E j \in 1..Len(d) : j <= Len(params.items) /\ params.items[j] = st[i].key
        THEN [key |-> st[i].key,
              t |-> Tensor(st[i].t.id,
                           st[i].t.val + noise * d[CHOOSE j \in 1..Len(d) :
                               j <= Len(params.items) /\ params.items[j] = st[i].key])]
        ELSE st[i]]

\* A plausible slip: the noise added in place ("t += ..."), which lands in
\* the tensors of the state, since detach() shares their content.
DiscriminatorGanLoss_forward_inplace(o, st, dr, df) ==
    LET r  == extract_params_from_state(o.real, st)
        f  == extract_params_from_state(o.fake, st)
        rd == [i \in 1..Len(r.p) |-> Detach(r.p[i])]
        fd == [i \in 1..Len(f.p) |-> Detach(f.p[i])]
        n  == IF o.noise # 0 /\ r.status = "ok" /\ f.status = "ok"
              THEN Noisy(rd, fd, dr, df, o.noise)
              ELSE [status |-> "ok", real |-> rd, fake |-> fd]
        st2 == IF o.noise # 0
               THEN NoisedInPlace(NoisedInPlace(st, o.real, dr, o.noise), o.fake, df, o.noise)
               ELSE st
    IN  IF r.status # "ok" THEN Done(st, o, r.status, <<>>)
        ELSE IF f.status # "ok" THEN Done(st, o, f.status, <<>>)
        ELSE IF n.status # "ok" THEN Done(st, o, n.status, <<>>)
        ELSE IF o.gan_type \in {"gan", "pixgan", "ragan"}
             THEN Done(st2, o, "returned", ValsOf(n.real \o n.fake))
        ELSE Done(st2, o, "NotImplementedError", <<>>)

\* DiscriminatorGanLoss.forward (lines 161-195).
DiscriminatorGanLoss_forward(o, st, dr, df) ==
    LET r  == extract_params_from_state(o.real, st)
        f  == extract_params_from_state(o.fake, st)
        rd == [i \in 1..Len(r.p) |-> Detach(r.p[i])]
        fd == [i \in 1..Len(f.p) |-> Detach(f.p[i])]
        n  == IF o.noise # 0 /\ r.status = "ok" /\ f.status = "ok"
              THEN Noisy(rd, fd, dr, df, o.noise)
              ELSE [status |-> "ok", real |-> rd, fake |-> fd]
    IN  IF r.status # "ok" THEN Done(st, o, r.status, <<>>)
        ELSE IF f.status # "ok" THEN Done(st, o, f.status, <<>>)
        ELSE IF n.status # "ok" THEN Done(st, o, n.status, <<>>)
        ELSE IF o.gan_type \in {"gan", "pixgan", "ragan"}
             THEN Done(st, o, "returned", ValsOf(n.real \o n.fake))
        ELSE Done(st, o, "NotImplementedError", <<>>)

(***************************************************************************)
(* torch.flip and torch.rot90 on the last two dimensions (2 and 3) of an   *)
(* image tensor, taken as a grid: a sequence of rows of equal length.      *)
(***************************************************************************)
Rows(x) == Len(x)
Cols(x) == Len(x[1])

Pixels == {0, 1}

Grids == UNION {[1..h -> [1..w -> Pixels]] : h \in 1..MaxDim, w \in 1..MaxDim}

\* torch.flip(x, dims=(d,)) for d = 2 (the rows) or d = 3 (the columns).
torch_flip(x, d) ==
    IF d = 2 THEN [i \in 1..Rows(x) |-> x[Rows(x) + 1 - i]]
    ELSE [i \in 1..Rows(x) |-> [j \in 1..Cols(x) |-> x[i][Cols(x) + 1 - j]]]

\* x.transpose(2, 3)
Transpose(x) == [i \in 1..Cols(x) |-> [j \in 1..Rows(x) |-> x[j][i]]]

\* torch.rot90(x, k, dims=[2,3]): k = 1 is flip(3) then transpose, k = 2 is
\* flip of both, k = 3 is flip(2) then transpose.
torch_rot90(x, k) ==
    IF k = 1 THEN Transpose(torch_flip(x, 3))
    ELSE IF k = 2 THEN torch_flip(torch_flip(x, 2), 3)
    ELSE IF k = 3 THEN Transpose(torch_flip(x, 2))
    ELSE x

\* functools.partial(torch.flip, dims=(d,)), functools.partial(torch.rot90, k=k, dims=[2,3])
PartialFlip(d)  == [fn |-> "flip", arg |-> d]
PartialRot90(k) == [fn |-> "rot90", arg |-> k]

\* Calling a partial on x.
CallPartial(f, x) == IF f.fn = "flip" THEN torch_flip(x, f.arg) ELSE torch_rot90(x, f.arg)

Choices == 1..5

\* A plausible slip: each rotation undone by the same rotation.
random_alteration_same_rotation(c) ==
    CASE c = 1 -> <<PartialFlip(2), PartialFlip(2)>>
      [] c = 2 -> <<PartialFlip(3), PartialFlip(3)>>
      [] c = 3 -> <<PartialRot90(1), PartialRot90(1)>>
      [] c = 4 -> <<PartialRot90(2), PartialRot90(2)>>
      [] c = 5 -> <<PartialRot90(3), PartialRot90(3)>>

\* random_alteration (lines 212-218): the c-th pair of the list random.choice
\* draws from.
random_alteration(c) ==
    CASE c = 1 -> <<PartialFlip(2), PartialFlip(2)>>
      [] c = 2 -> <<PartialFlip(3), PartialFlip(3)>>
      [] c = 3 -> <<PartialRot90(1), PartialRot90(3)>>
      [] c = 4 -> <<PartialRot90(2), PartialRot90(2)>>
      [] c = 5 -> <<PartialRot90(3), PartialRot90(1)>>

NotAltered(x) == [status |-> "not altered", x |-> x, choice |-> 0,
                  altered |-> <<>>, undone |-> <<>>]

\* opt['generator_output_index'] if it is in opt.keys() else None (line 209)
NoIndex        == [set |-> FALSE, n |-> 0]
OutputIndex(k) == [set |-> TRUE, n |-> k]

\* alteration(t) for a tensor of one row and one column.
Altered(t, f) == Tensor(0, CallPartial(f, << <<t.val>> >>)[1][1])

\* What the generator gives for the inputs: its k-th output, or (Whole) its
\* only output when it gives one tensor; undo holds what has been applied to it.
Whole == -1

NetOutput(k, inputs) == [output |-> k, of |-> ValsOf(inputs), undo |-> <<>>]

\* net(*altered): a tuple of two outputs for a loss configured with
\* generator_output_index, one tensor otherwise.
Net(o, inputs) ==
    IF o.gen_out.set
    THEN [istuple |-> TRUE, items |-> <<NetOutput(0, inputs), NetOutput(1, inputs)>>]
    ELSE [istuple |-> FALSE, items |-> <<NetOutput(Whole, inputs)>>]

\* Lines 236-237: "if self.gen_output_to_use:" is false for None and for 0.
SelectOutput(o, y) ==
    IF o.gen_out.set /\ o.gen_out.n # 0
    THEN [istuple |-> FALSE, items |-> <<y.items[o.gen_out.n + 1]>>]
    ELSE y

\* GeometricSimilarityGeneratorLoss.forward (lines 220-244) with the c-th
\* alteration drawn: the altered input is a new tensor; undo_fn takes a
\* tensor, not a tuple; state[real] is read last.
GeometricSimilarityGeneratorLoss_forward(o, st, c) ==
    LET f == extract_params_from_state(o.fake, st)
        altered == [i \in 1..Len(f.p) |->
                       IF i - 1 = o.idx THEN Altered(f.p[i], random_alteration(c)[1])
                       ELSE f.p[i]]
        upsampled_altered == SelectOutput(o, Net(o, altered))
        undone == [upsampled_altered.items[1] EXCEPT !.undo = <<random_alteration(c)[2]>>]
        r == StateAt(st, o.real)
    IN  IF f.status # "ok" THEN Done(st, o, f.status, <<>>)
        ELSE IF upsampled_altered.istuple THEN Done(st, o, "TypeError", <<>>)
        ELSE IF r.status # "ok" THEN Done(st, o, r.status, <<>>)
        ELSE Done(st, o, "returned", <<NetOutput(Whole, r.p), undone>>)

(***************************************************************************)
(* Python's repr of a str and str of a list of str, as used by             *)
(* "%s_%s" % (self.opt['fake'], trans_name)  (line 274).                   *)
(***************************************************************************)
RECURSIVE Escape(_, _)
Escape(s, q) ==
    IF s = <<>> THEN <<>>
    ELSE (IF Head(s) = "\\" \/ Head(s) = q THEN <<"\\", Head(s)>> ELSE <<Head(s)>>)
         \o Escape(Tail(s), q)

PyRepr(s) ==
    IF "'" \in Range(s) /\ "\"" \notin Range(s)
    THEN <<"\"">> \o Escape(s, "\"") \o <<"\"">>
    ELSE <<"'">> \o Escape(s, "'") \o <<"'">>

RECURSIVE JoinRepr(_)
JoinRepr(items) ==
    IF items = <<>> THEN <<>>
    ELSE IF Len(items) = 1 THEN PyRepr(items[1])
    ELSE PyRepr(items[1]) \o <<",", " ">> \o JoinRepr(Tail(items))

PyStrOfList(items) == <<"[">> \o JoinRepr(items) \o <<"]">>

\* TranslationInvarianceLoss.forward (lines 263-284): the configured name of
\* the translated input is overwritten in self.opt['fake'], then the names
\* are looked up in the state.
TranslationInvarianceLoss_forward(o, st, trans_name) ==
    IF ~o.fake.islist THEN Done(st, o, "TypeError", <<>>)
    ELSE IF o.idx + 1 > Len(o.fake.items) THEN Done(st, o, "IndexError", <<>>)
    ELSE
      LET name == PyStrOfList(o.fake.items) \o <<"_">> \o trans_name
          o2   == [o EXCEPT !.fake.items[o.idx + 1] = name]
          f    == extract_params_from_state(o2.fake, st)
          r    == StateAt(st, o2.real)
      IN  IF f.status # "ok" THEN LookedUp(Done(st, o2, f.status, <<>>), o2.fake.items)
          ELSE IF r.status # "ok" THEN LookedUp(Done(st, o2, r.status, <<>>), o2.fake.items)
          ELSE LookedUp(Done(st, o2, "returned", ValsOf(f.p \o r.p)), o2.fake.items)

(***************************************************************************)
(* The loss layer: a loss term is created from its options and its forward *)
(* is called on the training state of the step.                            *)
(***************************************************************************)
FakeSamples == {Scalar(K_gen), List(<<K_gen>>), List(<<K_lq, K_gen>>)}
RealSamples == {Scalar(K_hq), List(<<K_hq>>)}

OptSamples ==
    [type : (KnownTypes \ {"generator_gan", "discriminator_gan", "geometric"}) \cup OtherTypes,
     fake : FakeSamples, real : RealSamples, noise : {0}, gan_type : {"gan"}, idx : {0},
     gen_out : {NoIndex}]
    \cup
    [type : {"generator_gan", "discriminator_gan"},
     fake : FakeSamples, real : RealSamples, noise : {0, 1}, gan_type : GanTypes, idx : {0},
     gen_out : {NoIndex}]
    \cup
    [type : {"geometric"},
     fake : FakeSamples, real : RealSamples, noise : {0}, gan_type : {"gan"}, idx : {0},
     gen_out : {NoIndex, OutputIndex(0), OutputIndex(1)}]

\* The states of a step: up to MaxState keys, in any order, each bound to its
\* own tensor.
StateSamples ==
    {st \in UNION {[1..n -> [key : Keys, t : [id : {0}, val : Vals]]] : n \in 0..MaxState} :
        \A i, j \in 1..Len(st) : i # j => st[i].key # st[j].key}

WithIds(st) == [i \in 1..Len(st) |-> [key |-> st[i].key, t |-> Tensor(i, st[i].t.val)]]

InitLoss ==
    /\ opt \in OptSamples
    /\ loss = NotCreated
    /\ state \in {WithIds(st) : st \in StateSamples}
    /\ calls = 0
    /\ out = NoOutcome
    /\ geo = NotAltered(<<>>)

PinTerm ==
    /\ opt = [type |-> "pix", fake |-> Scalar(K_gen), real |-> Scalar(K_hq),
              noise |-> 0, gan_type |-> "gan", idx |-> 0, gen_out |-> NoIndex]
    /\ loss = NotCreated
    /\ state = <<>>
    /\ calls = 0
    /\ out = NoOutcome

PinLoss ==
    /\ PinTerm
    /\ geo = NotAltered(<<>>)

\* The grids random_alteration is tried on.
InitAlter ==
    /\ PinTerm
    /\ geo \in {NotAltered(x) : x \in Grids}

CreateLoss ==
    /\ loss = NotCreated
    /\ loss' = create_loss(opt)
    /\ UNCHANGED <<opt, state, calls, out, geo>>
    /\ UNCHANGED <<textVars, dataVars>>

Apply(fw) ==
    /\ state' = fw.state
    /\ opt' = fw.opt
    /\ out' = fw.out
    /\ calls' = calls + 1
    /\ UNCHANGED <<loss, geo>>
    /\ UNCHANGED <<textVars, dataVars>>

CanCall(cls) == loss.status = "created" /\ loss.cls = cls /\ calls < MaxCalls

PixForward == CanCall("PixLoss") /\ Apply(PixLoss_forward(opt, state))

FeatureForward ==
    /\ CanCall("FeatureLoss") \/ CanCall("InterpretedFeatureLoss")
    /\ Apply(FeatureLoss_forward(opt, state))

GeneratorGanForward ==
    /\ CanCall("GeneratorGanLoss")
    /\ \E dr, df \in [1..Len(opt.real.items) -> Randn] :
          Apply(GeneratorGanLoss_forward(opt, state, dr, df))

DiscriminatorGanForward ==
    /\ CanCall("DiscriminatorGanLoss")
    /\ \E dr, df \in [1..Len(opt.real.items) -> Randn] :
          Apply(DiscriminatorGanLoss_forward(opt, state, dr, df))

GeometricForward ==
    /\ CanCall("GeometricSimilarityGeneratorLoss")
    /\ \E c \in Choices : Apply(GeometricSimilarityGeneratorLoss_forward(opt, state, c))

TranslationForward ==
    /\ CanCall("TranslationInvarianceLoss")
    /\ \E trans_name \in TransNames :
          Apply(TranslationInvarianceLoss_forward(opt, state, trans_name))

\* alteration, undo_fn = self.random_alteration(); alteration(t)  (lines 225-229)
Alter(c) ==
    /\ geo.status = "not altered"
    /\ geo' = [geo EXCEPT !.status = "altered", !.choice = c,
                          !.altered = CallPartial(random_alteration(c)[1], geo.x)]
    /\ UNCHANGED <<opt, loss, state, calls, out>>
    /\ UNCHANGED <<textVars, dataVars>>

\* undo_fn(...)  (line 242), on what the alteration gave.
Undo ==
    /\ geo.status = "altered"
    /\ geo' = [geo EXCEPT !.status = "undone",
                          !.undone = CallPartial(random_alteration(geo.choice)[2],
                                                 geo.altered)]
    /\ UNCHANGED <<opt, loss, state, calls, out>>
    /\ UNCHANGED <<textVars, dataVars>>

NextAlter ==
    \/ \E c \in Choices : Alter(c)
    \/ Undo

NextLoss ==
    \/ CreateLoss
    \/ PixForward
    \/ FeatureForward
    \/ GeneratorGanForward
    \/ DiscriminatorGanForward
    \/ GeometricForward
    \/ TranslationForward

(***************************************************************************)
(* paired_voice_audio_dataset.py: the manifests and their fetchers.        *)
(* A manifest is the list of its lines, each already stripped and split at *)
(* the tabs; a transcript is a sequence of characters.                     *)
(***************************************************************************)
T_a   == <<" ", "a">>
T_aB  == <<"B">>
T_a_a == <<"a", " ", "a">>

\* The manifest files on disk: name -> [dir, lines].
Manifests ==
    [f \in {"d/m.tsv", "cv/v.tsv", "vp/x.tsv", "lj/l.txt"} |->
        CASE f = "d/m.tsv" ->
                [dir |-> "d",
                 lines |-> << <<T_a, "1.wav">>, <<T_aB, "2.wav">>, <<T_a_a, "3.wav">> >>]
          [] f = "cv/v.tsv" ->
                [dir |-> "cv",
                 lines |-> << <<<<>>, "path", <<>>>>,
                              <<<<>>, "7.mp3", T_aB>>, <<<<>>, "8.mp3", T_a>> >>]
          [] f = "vp/x.tsv" ->
                [dir |-> "vp",
                 lines |-> << <<"id", <<>>, <<>>, "", "", "">>,
                              <<"2019x", T_a, T_a, "s", "train", "f">>,
                              <<"2020y", T_a_a, T_a, "s", "train", "m">> >>]
          [] f = "lj/l.txt" ->
                [dir |-> "lj",
                 lines |-> << <<"lj/5.wav", T_a>>, <<"lj/6.wav", T_aB>> >>]]

\* os.path.join(base, name)
PathJoin(base, name) == base \o "/" \o name

\* file[:4] for the file ids of the VoxPopuli manifest.
First4(file) == CASE file = "2019x" -> "2019" [] file = "2020y" -> "2020" [] OTHER -> file

\* load_tsv (lines 22-27): [base/component[1], component[0]]
load_tsv(filename) ==
    LET components == Manifests[filename].lines
        base == Manifests[filename].dir
    IN  [i \in 1..Len(components) |->
            <<PathJoin(base, components[i][2]), components[i][1]>>]

\* load_mozilla_cv (lines 30-35): the header is dropped;
\* [base/clips/component[1], component[2]]
load_mozilla_cv(filename) ==
    LET components == Tail(Manifests[filename].lines)
        base == Manifests[filename].dir
    IN  [i \in 1..Len(components) |->
            <<PathJoin(base, "clips/" \o components[i][2]), components[i][3]>>]

\* load_voxpopuli (lines 38-49): the header is dropped;
\* [base/year/file.ogg.wav, raw_text]
load_voxpopuli(filename) ==
    LET lines == Tail(Manifests[filename].lines)
        base == Manifests[filename].dir
    IN  [i \in 1..Len(lines) |->
            <<PathJoin(PathJoin(base, First4(lines[i][1])), lines[i][1] \o ".ogg.wav"),
              lines[i][2]>>]

\* load_filepaths_and_text (models.tacotron2.taco_utils): the lines as they are.
load_filepaths_and_text(filename) == Manifests[filename].lines

(***************************************************************************)
(* Python's global random generator, as a small congruential generator:    *)
(* a state, random.seed, and the draws random.shuffle makes.               *)
(***************************************************************************)
RngMod == 8

RngNext(r) == (5 * r + 3) % RngMod

Seeded(seed) == seed % RngMod

RandBelow(r, n) == r % n

Swap(x, i, j) == [x EXCEPT ![i] = x[j], ![j] = x[i]]

\* random.shuffle(x): for i in reversed(range(1, len(x))): j = randbelow(i + 1);
\* x[i], x[j] = x[j], x[i].  Positions are 1-based here.
RECURSIVE ShuffleFrom(_, _, _)
ShuffleFrom(x, i, r) ==
    IF i < 2 THEN [list |-> x, rng |-> r]
    ELSE ShuffleFrom(Swap(x, i, RandBelow(r, i) + 1), i - 1, RngNext(r))

Shuffle(x, r) == ShuffleFrom(x, Len(x), r)

(***************************************************************************)
(* TextWavLoader.__init__ (lines 61-104).                                  *)
(***************************************************************************)
Unlimited == [set |-> FALSE, n |-> 0]
Limit(n)  == [set |-> TRUE, n |-> n]

KnownModes == {"lj", "libritts", "tsv", "mozilla_cv", "voxpopuli"}

Fetch(fm, p) ==
    IF fm = "lj" \/ fm = "libritts" THEN load_filepaths_and_text(p)
    ELSE IF fm = "tsv" THEN load_tsv(p)
    ELSE IF fm = "mozilla_cv" THEN load_mozilla_cv(p)
    ELSE load_voxpopuli(p)

RECURSIVE FetchAll(_, _, _)
FetchAll(path, fetcher_mode, i) ==
    IF i > Len(path) THEN <<>>
    ELSE Fetch(fetcher_mode[i], path[i]) \o FetchAll(path, fetcher_mode, i + 1)

\* The exception raised before the shuffle, if any (lines 69, 76-89).
FetchError(hp) ==
    IF Len(hp.path) # Len(hp.fetcher_mode) THEN "AssertionError"
    ELSE IF \E i \in 1..Len(hp.path) :
              /\ \A j \in 1..(i - 1) : hp.fetcher_mode[j] \in KnownModes
                    /\ ~(hp.fetcher_mode[j] \in {"mozilla_cv", "voxpopuli"}
                         /\ hp.load_conditioning)
              /\ hp.fetcher_mode[i] \in {"mozilla_cv", "voxpopuli"}
              /\ hp.load_conditioning
         THEN "AssertionError"
    ELSE IF \E i \in 1..Len(hp.path) : hp.fetcher_mode[i] \notin KnownModes
         THEN "NotImplementedError"
    ELSE "none"

\* A plausible slip: the shuffle without random.seed(hparams.seed) before it.
TextWavLoader_init_unseeded(hp, r) ==
    IF FetchError(hp) # "none"
    THEN [loader |-> [status |-> FetchError(hp), audiopaths_and_text |-> <<>>], rng |-> r]
    ELSE
      LET sh == Shuffle(FetchAll(hp.path, hp.fetcher_mode, 1), r)
      IN  IF ~hp.needs_collate /\ ~(hp.max_wav_length.set /\ hp.max_text_length.set)
          THEN [loader |-> [status |-> "AssertionError", audiopaths_and_text |-> <<>>],
                rng |-> sh.rng]
          ELSE [loader |-> [status |-> "built", audiopaths_and_text |-> sh.list],
                rng |-> sh.rng]

\* The loader built from hparams hp with the generator in state r, and the
\* state the generator is left in.
TextWavLoader_init(hp, r) ==
    IF FetchError(hp) # "none"
    THEN [loader |-> [status |-> FetchError(hp), audiopaths_and_text |-> <<>>], rng |-> r]
    ELSE
      LET sh == Shuffle(FetchAll(hp.path, hp.fetcher_mode, 1), Seeded(hp.seed))
      IN  IF ~hp.needs_collate /\ ~(hp.max_wav_length.set /\ hp.max_text_length.set)
          THEN [loader |-> [status |-> "AssertionError", audiopaths_and_text |-> <<>>],
                rng |-> sh.rng]
          ELSE [loader |-> [status |-> "built", audiopaths_and_text |-> sh.list],
                rng |-> sh.rng]

\* The hparams a loader is built from.
Hparams(path, fetcher_mode, seed, lc, mw, mt, nc, bpe) ==
    [path |-> path, fetcher_mode |-> fetcher_mode, seed |-> seed,
     load_conditioning |-> lc, max_wav_length |-> mw, max_text_length |-> mt,
     needs_collate |-> nc, use_bpe_tokenizer |-> bpe]

NoHparams == Hparams(<<>>, <<>>, 0, FALSE, Unlimited, Unlimited, TRUE, TRUE)

\* A loader object: what __init__ left in self, the hparams it was built from,
\* and (for reference only) the generator state __init__ was entered with.
Unbuilt == [status |-> "not built", audiopaths_and_text |-> <<>>,
            hp |-> NoHparams, rng0 |-> 0]

Loader(built, hp, r) ==
    [status |-> built.status, audiopaths_and_text |-> built.audiopaths_and_text,
     hp |-> hp, rng0 |-> r]

(***************************************************************************)
(* TextWavLoader.__getitem__ (lines 123-159), one invocation: it returns a *)
(* sample or calls itself again with another index.                        *)
(***************************************************************************)
\* What load_audio (with load_similar_clips, when conditioning is loaded)
\* does for a path: it raises, gives None, or gives the waveform.
AudioError    == [kind |-> "error", data |-> <<>>]
AudioMissing  == [kind |-> "None", data |-> <<>>]
AudioWav(d)   == [kind |-> "wav", data |-> d]

\* __len__ (lines 161-162)
LenOf(self) == Len(self.audiopaths_and_text)

\* A plausible slip: the same index retried after a loading error.
NextOnErrorSameIndex(self, idx) == idx % LenOf(self)

\* The index retried after a loading error (line 131).
NextOnError(self, idx) == (idx + 1) % LenOf(self)

\* A plausible slip: randint's upper bound taken as exclusive.
RandomIndicesOffByOne(self) == 0..LenOf(self)

\* The indices random.randint(0, len(self)-1) can give (line 139).
RandomIndices(self) == 0..(LenOf(self) - 1)

PadTo(s, n) == s \o Zeros(n - Len(s))

NoSample ==
    [form |-> "none", tokens |-> <<>>, text_lengths |-> 0, wav |-> <<>>,
     wav_lengths |-> 0, path |-> "", real_text |-> <<>>, cond |-> <<>>,
     has_conditioning |-> FALSE]

\* load_similar_clips(path, ...): the conditioning clips found for the path.
Clips(path) == <<"clips of " \o path>>

\* A plausible slip: the lengths taken after the padding.
PaddedSampleLengthsAfterPad(self, tseq, wav, real_text, path, cond) ==
    [form |-> "dict",
     tokens |-> IF Len(tseq) # self.hp.max_text_length.n
                THEN PadTo(tseq, self.hp.max_text_length.n) ELSE tseq,
     text_lengths |-> self.hp.max_text_length.n,
     wav |-> IF Len(wav) # self.hp.max_wav_length.n
             THEN PadTo(wav, self.hp.max_wav_length.n) ELSE wav,
     wav_lengths |-> self.hp.max_wav_length.n,
     path |-> path, real_text |-> real_text, cond |-> cond,
     has_conditioning |-> self.hp.load_conditioning]

\* The dict returned when needs_collate is false (lines 143-158).
PaddedSample(self, tseq, wav, real_text, path, cond) ==
    [form |-> "dict",
     tokens |-> IF Len(tseq) # self.hp.max_text_length.n
                THEN PadTo(tseq, self.hp.max_text_length.n) ELSE tseq,
     text_lengths |-> Len(tseq),
     wav |-> IF Len(wav) # self.hp.max_wav_length.n
             THEN PadTo(wav, self.hp.max_wav_length.n) ELSE wav,
     wav_lengths |-> Len(wav),
     path |-> path, real_text |-> real_text, cond |-> cond,
     has_conditioning |-> self.hp.load_conditioning]

\* The tuple (tseq, wav, path, text, cond) returned otherwise (line 159).
TupleSample(tseq, wav, real_text, path, cond) ==
    [form |-> "tuple", tokens |-> tseq, text_lengths |-> -1, wav |-> wav,
     wav_lengths |-> -1, path |-> path, real_text |-> real_text, cond |-> cond,
     has_conditioning |-> FALSE]

\* A plausible slip: the text length left out of the test.
UnusableNoTextTest(self, tseq, a) ==
    \/ a.kind = "None"
    \/ self.hp.max_wav_length.set /\ Len(a.data) > self.hp.max_wav_length.n

\* The test of lines 132-134: the entry is missing or too long.
Unusable(self, tseq, a) ==
    \/ a.kind = "None"
    \/ self.hp.max_wav_length.set /\ Len(a.data) > self.hp.max_wav_length.n
    \/ self.hp.max_text_length.set /\ Len(tseq) > self.hp.max_text_length.n

\* One invocation on index, given the tokenizer table and what loading gives.
TextWavLoader_getitem(self, voc, aud, idx) ==
    IF idx + 1 > LenOf(self)
    THEN [kind |-> "except", sample |-> NoSample]
    ELSE
      LET entry == self.audiopaths_and_text[idx + 1]
          txt   == entry[2]
          tseq  == get_text(self.hp.use_bpe_tokenizer, voc, txt)
          a     == aud[entry[1]]
          cond  == IF self.hp.load_conditioning THEN Clips(entry[1]) ELSE <<>>
      IN  IF tseq.status # "returned" \/ a.kind = "error"
          THEN [kind |-> "except", sample |-> NoSample]
          ELSE IF Unusable(self, tseq.ids, a)
          THEN [kind |-> "retry", sample |-> NoSample]
          ELSE IF ~self.hp.needs_collate
          THEN [kind |-> "return",
                sample |-> PaddedSample(self, tseq.ids, a.data, txt, entry[1], cond)]
          ELSE [kind |-> "return",
                sample |-> TupleSample(tseq.ids, a.data, txt, entry[1], cond)]

(***************************************************************************)
(* TextMelCollate.__call__ (lines 165-217).                                *)
(***************************************************************************)
IndexOrders(n) == {p \in [1..n -> 1..n] : \A i, j \in 1..n : i # j => p[i] # p[j]}

\* The index orders torch.sort(..., descending=True) can give for the
\* lengths: any order that sorts them (the sort is not stable).
SortedDecreasing(lens) ==
    {p \in IndexOrders(Len(lens)) :
        \A i, j \in 1..Len(lens) : i < j => lens[p[i]] >= lens[p[j]]}

MaxOf(S) == CHOOSE m \in S : \A x \in S : x <= m

RECURSIVE NonNone(_)
NonNone(cs) ==
    IF cs = <<>> THEN <<>>
    ELSE (IF Head(cs) # <<>> THEN <<Head(cs)[1]>> ELSE <<>>) \o NonNone(Tail(cs))

NotCollated ==
    [status |-> "not called", padded_text |-> <<>>, text_lengths |-> <<>>,
     wav |-> <<>>, wav_lengths |-> <<>>, filenames |-> <<>>, real_text |-> <<>>,
     conditioning |-> <<>>, has_conditioning |-> FALSE]

\* A plausible slip: the waveform loop reads batch[i], not batch[ids[i]].
TextMelCollate_call_unsorted_wav(b, ids) ==
    LET n == Len(b)
        max_input_len  == Len(b[ids[1]].tokens)
        max_target_len == MaxOf({Len(b[k].wav) : k \in 1..n})
        conds == NonNone([i \in 1..n |-> b[ids[i]].cond])
    IN  [status |-> "done",
         padded_text |-> [i \in 1..n |-> PadTo(b[ids[i]].tokens, max_input_len)],
         text_lengths |-> [i \in 1..n |-> Len(b[ids[i]].tokens)],
         wav |-> [i \in 1..n |-> PadTo(b[i].wav, max_target_len)],
         wav_lengths |-> [i \in 1..n |-> Len(b[i].wav)],
         filenames |-> [i \in 1..n |-> b[ids[i]].path],
         real_text |-> [i \in 1..n |-> b[ids[i]].real_text],
         conditioning |-> conds,
         has_conditioning |-> Len(conds) > 0]

\* The collated batch, for the sorted index order ids.
TextMelCollate_call(b, ids) ==
    LET n == Len(b)
        max_input_len  == Len(b[ids[1]].tokens)
        max_target_len == MaxOf({Len(b[k].wav) : k \in 1..n})
        conds == NonNone([i \in 1..n |-> b[ids[i]].cond])
    IN  [status |-> "done",
         padded_text |-> [i \in 1..n |-> PadTo(b[ids[i]].tokens, max_input_len)],
         text_lengths |-> [i \in 1..n |-> Len(b[ids[i]].tokens)],
         wav |-> [i \in 1..n |-> PadTo(b[ids[i]].wav, max_target_len)],
         wav_lengths |-> [i \in 1..n |-> Len(b[ids[i]].wav)],
         filenames |-> [i \in 1..n |-> b[ids[i]].path],
         real_text |-> [i \in 1..n |-> b[ids[i]].real_text],
         conditioning |-> conds,
         has_conditioning |-> Len(conds) > 0]

(***************************************************************************)
(* The dataset: loaders are built from hparams; items are fetched from the *)
(* first loader, and, when it needs collation, gathered into a batch that  *)
(* is collated.                                                            *)
(***************************************************************************)
TsvPaths == {load_tsv("d/m.tsv")[i][1] : i \in 1..Len(load_tsv("d/m.tsv"))}

ClipNo(p) == CHOOSE i \in 1..Len(load_tsv("d/m.tsv")) : load_tsv("d/m.tsv")[i][1] = p

\* The waveform of n samples stored at path p (one channel).
WavData(p, n) == [j \in 1..n |-> ClipNo(p)]

\* What the files can hold: for every path one of the outcomes in fails, or a
\* waveform of minlen..maxlen samples.
AudioSamples(fails, minlen, maxlen) ==
    [TsvPaths -> fails \cup {AudioWav(WavData(p, n)) : p \in TsvPaths, n \in minlen..maxlen}]

ConsistentAudio(f) ==
    \A p \in TsvPaths : f[p].kind = "wav" => f[p].data = WavData(p, Len(f[p].data))

Seeds == {0, 1}

\* The hparams of the corpus specification: the manifests and fetcher modes.
HpCorpus ==
    {Hparams(pm[1], pm[2], seed, pm[3], Unlimited, Unlimited, TRUE, TRUE) :
        pm \in {<< <<"d/m.tsv">>, <<"tsv">>, TRUE >>,
                << <<"cv/v.tsv", "d/m.tsv">>, <<"mozilla_cv", "tsv">>, FALSE >>,
                << <<"vp/x.tsv", "d/m.tsv">>, <<"voxpopuli", "tsv">>, FALSE >>,
                << <<"d/m.tsv", "cv/v.tsv">>, <<"tsv", "mozilla_cv">>, TRUE >>,
                << <<"d/m.tsv">>, <<"csv">>, FALSE >>,
                << <<"d/m.tsv", "lj/l.txt">>, <<"tsv">>, FALSE >>},
        seed \in Seeds}
    \cup {Hparams(<<"d/m.tsv">>, <<"tsv">>, 1, FALSE, Unlimited, Limit(MaxText), FALSE, TRUE)}

\* The hparams of the item specification: the limits, the padding mode, the
\* conditioning and the tokenizer mode, over the tsv manifest.
HpItem ==
    {Hparams(<<"d/m.tsv">>, <<"tsv">>, 0, lc, mw, mt, nc, bpe) :
        lc \in BOOLEAN, mw \in {Unlimited, Limit(MaxWav - 1)},
        mt \in {Unlimited, Limit(MaxText)}, nc \in BOOLEAN, bpe \in BOOLEAN}

\* The hparams of the liveness specification: a waveform limit, with or
\* without a text limit, in both tokenizer modes.
HpLive ==
    {Hparams(<<"d/m.tsv">>, <<"tsv">>, 0, FALSE, Limit(MaxWav - 1), mt, TRUE, bpe) :
        mt \in {Unlimited, Limit(MaxText)}, bpe \in BOOLEAN}

HpCollate ==
    {Hparams(<<"d/m.tsv">>, <<"tsv">>, 0, lc, Unlimited, Unlimited, TRUE, FALSE) :
        lc \in BOOLEAN}

PinItem ==
    /\ audio = [p \in TsvPaths |-> AudioMissing]
    /\ pc = "idle"
    /\ first = 0
    /\ index = 0
    /\ sample = NoSample
    /\ batch = <<>>
    /\ collated = NotCollated

PinData ==
    /\ rng = 0
    /\ ds = <<Unbuilt, Unbuilt>>
    /\ PinItem

InitCorpus ==
    /\ rng \in 0..(RngMod - 1)
    /\ ds = <<Unbuilt, Unbuilt>>
    /\ PinItem

\* The state after the first loader has been built from hp.
Built(hps, auds) ==
    /\ \E hp \in hps, r \in {0} :
          /\ TextWavLoader_init(hp, r).loader.status = "built"
          /\ ds = <<Loader(TextWavLoader_init(hp, r).loader, hp, r), Unbuilt>>
          /\ rng = TextWavLoader_init(hp, r).rng
    /\ audio \in auds
    /\ ConsistentAudio(audio)
    /\ pc = "idle"
    /\ first = 0
    /\ index = 0
    /\ sample = NoSample
    /\ batch = <<>>
    /\ collated = NotCollated

\* TextWavLoader(hparams), as the i-th loader of the program.
Construct(i, hp) ==
    /\ ds[i].status = "not built"
    /\ ds' = [ds EXCEPT ![i] = Loader(TextWavLoader_init(hp, rng).loader, hp, rng)]
    /\ rng' = TextWavLoader_init(hp, rng).rng
    /\ UNCHANGED <<audio, pc, first, index, sample, batch, collated>>
    /\ UNCHANGED <<textVars, lossVars>>

\* Any other draw from the global generator (random.randint in __getitem__,
\* random.choice in the loss terms).
RandomUse ==
    /\ rng' = RngNext(rng)
    /\ UNCHANGED <<ds, audio, pc, first, index, sample, batch, collated>>
    /\ UNCHANGED <<textVars, lossVars>>

\* dataset[i] is called.
GetItemCall(i) ==
    /\ pc \in {"idle", "returned"}
    /\ pc' = "loading"
    /\ first' = i
    /\ index' = i
    /\ sample' = NoSample
    /\ UNCHANGED <<rng, ds, audio, batch, collated>>
    /\ UNCHANGED <<textVars, lossVars>>

Outcome == TextWavLoader_getitem(ds[1], vocab, audio, index)

\* Loading raised: self[(index+1) % len(self)]  (lines 128-131).
GetItemExcept ==
    /\ pc = "loading"
    /\ Outcome.kind = "except"
    /\ index' = NextOnError(ds[1], index)
    /\ UNCHANGED <<rng, ds, audio, pc, first, sample, batch, collated>>
    /\ UNCHANGED <<textVars, lossVars>>

\* The entry is missing or too long: self[rv] for a random rv (lines 132-140).
GetItemRetry(rv) ==
    /\ pc = "loading"
    /\ Outcome.kind = "retry"
    /\ rv \in RandomIndices(ds[1])
    /\ index' = rv
    /\ UNCHANGED <<rng, ds, audio, pc, first, sample, batch, collated>>
    /\ UNCHANGED <<textVars, lossVars>>

\* The sample is returned (lines 141-159).
GetItemReturn ==
    /\ pc = "loading"
    /\ Outcome.kind = "return"
    /\ pc' = "returned"
    /\ sample' = Outcome.sample
    /\ UNCHANGED <<rng, ds, audio, first, index, batch, collated>>
    /\ UNCHANGED <<textVars, lossVars>>

\* The data loader puts the returned sample into the batch it is gathering.
Collect ==
    /\ pc = "returned"
    /\ ds[1].hp.needs_collate
    /\ collated = NotCollated
    /\ Len(batch) < BatchSize
    /\ batch' = Append(batch, sample)
    /\ pc' = "idle"
    /\ sample' = NoSample
    /\ UNCHANGED <<rng, ds, audio, first, index, collated>>
    /\ UNCHANGED <<textVars, lossVars>>

\* collate_fn(batch): TextMelCollate.__call__.
Collate ==
    /\ pc = "idle"
    /\ batch # <<>>
    /\ collated = NotCollated
    /\ \E ids \in SortedDecreasing([k \in 1..Len(batch) |-> Len(batch[k].tokens)]) :
          collated' = TextMelCollate_call(batch, ids)
    /\ UNCHANGED <<rng, ds, audio, pc, first, index, sample, batch>>
    /\ UNCHANGED <<textVars, lossVars>>

CallIndices == 0..Len(load_tsv("d/m.tsv"))

NextCorpus ==
    \/ \E i \in 1..2, hp \in HpCorpus : Construct(i, hp)
    \/ RandomUse

NextItem ==
    \/ \E i \in CallIndices : GetItemCall(i)
    \/ GetItemExcept
    \/ \E rv \in CallIndices : GetItemRetry(rv)
    \/ GetItemReturn

NextCollate ==
    \/ \E i \in CallIndices : GetItemCall(i)
    \/ GetItemExcept
    \/ \E rv \in CallIndices : GetItemRetry(rv)
    \/ GetItemReturn
    \/ Collect
    \/ Collate

(***************************************************************************)
(* Specifications.                                                         *)
(***************************************************************************)
InitSpecText == InitText /\ PinLoss /\ PinData

SpecText == InitSpecText /\ [][NextText]_vars

InitSpecMel == InitMel /\ PinLoss /\ PinData

SpecMel == InitSpecMel /\ [][NextText]_vars

InitSpecLoss == InitLoss /\ PinText /\ PinData

SpecLoss == InitSpecLoss /\ [][NextLoss]_vars

InitSpecAlter == InitAlter /\ PinText /\ PinData

SpecAlter == InitSpecAlter /\ [][NextAlter]_vars

InitSpecCorpus == InitCorpus /\ PinText /\ PinLoss

SpecCorpus == InitSpecCorpus /\ [][NextCorpus]_vars

Init == Built(HpItem, AudioSamples({AudioError, AudioMissing}, 1, MaxWav)) /\ PinText /\ PinLoss

Next == NextItem

Spec == Init /\ [][Next]_vars

\* The scheduling of __getitem__: an invocation runs to its end, and the
\* random index is drawn fairly.
Fairness ==
    /\ WF_vars(GetItemExcept)
    /\ WF_vars(GetItemReturn)
    /\ \A rv \in CallIndices : SF_vars(GetItemRetry(rv))

InitLive == Built(HpLive, AudioSamples({AudioError, AudioMissing}, MaxWav - 1, MaxWav)) /\ PinText /\ PinLoss

SpecLive == InitLive /\ [][Next]_vars /\ Fairness

InitSpecCollate == Built(HpCollate, AudioSamples({AudioMissing}, 1, MaxWav - 1)) /\ PinText /\ PinLoss

SpecCollate == InitSpecCollate /\ [][NextCollate]_vars

(***************************************************************************)
(* C4: create_loss is a closed factory over the type string: each of the   *)
(* seven known types gives the loss term of its class, and every other     *)
(* type raises NotImplementedError and builds no loss term.                *)
(***************************************************************************)
C4_ClosedFactory ==
    loss.status # "not created" =>
        /\ opt.type = "pix" => loss = Created("PixLoss")
        /\ opt.type = "feature" => loss = Created("FeatureLoss")
        /\ opt.type = "interpreted_feature" => loss = Created("InterpretedFeatureLoss")
        /\ opt.type = "generator_gan" => loss = Created("GeneratorGanLoss")
        /\ opt.type = "discriminator_gan" => loss = Created("DiscriminatorGanLoss")
        /\ opt.type = "geometric" => loss = Created("GeometricSimilarityGeneratorLoss")
        /\ opt.type = "translational" => loss = Created("TranslationInvarianceLoss")
        /\ opt.type \notin KnownTypes => loss = NoLoss("NotImplementedError")

\* create_loss has been called with a type it does not know, and has raised.
C4_Witness ==
    /\ opt.type \notin KnownTypes
    /\ loss.status = "NotImplementedError"

(***************************************************************************)
(* C5: a forward call of a loss term leaves the training state as it was:  *)
(* the same keys in the same order, each bound to the same tensor with the *)
(* same content, also with noise configured for the GAN losses.            *)
(***************************************************************************)
C5_ForwardLeavesStateUnchanged ==
    [][calls' # calls => state' = state]_vars

\* A discriminator loss with noise has run twice on a state holding its inputs.
C5_Witness ==
    /\ loss.cls = "DiscriminatorGanLoss"
    /\ opt.noise # 0
    /\ calls = MaxCalls
    /\ out.status = "returned"
    /\ Len(state) > 0

(***************************************************************************)
(* C6: two loaders built from the same hparams over the same manifests     *)
(* hold the same audiopaths_and_text list, entry by entry, whatever was    *)
(* drawn from the random generator before each was built.                  *)
(***************************************************************************)
C6_DeterministicCorpusOrder ==
    (ds[1].status = "built" /\ ds[2].status = "built" /\ ds[1].hp = ds[2].hp)
        => ds[1].audiopaths_and_text = ds[2].audiopaths_and_text

\* Two loaders were built from the same hparams with the generator in different
\* states, and the shuffle moved the entries.
C6_Witness ==
    /\ ds[1].status = "built" /\ ds[2].status = "built"
    /\ ds[1].hp = ds[2].hp
    /\ ds[1].rng0 # ds[2].rng0
    /\ Len(ds[1].audiopaths_and_text) > 2
    /\ ds[1].audiopaths_and_text # FetchAll(ds[1].hp.path, ds[1].hp.fetcher_mode, 1)

\* The entry a returned sample was made from: its tokens and its waveform.
TokensOf(s) == get_text(ds[1].hp.use_bpe_tokenizer, vocab, s.real_text)
WavOf(s) == audio[s.path]

(***************************************************************************)
(* C7: every sample __getitem__ returns, after any chain of fallbacks, is  *)
(* made from an entry whose waveform exists and is no longer than          *)
(* max_wav_len (when set) and whose token sequence is no longer than       *)
(* max_text_len (when set).                                                *)
(***************************************************************************)
C7_ReturnedSampleWithinLimits ==
    pc = "returned" =>
        /\ sample.form # "none"
        /\ TokensOf(sample).status = "returned"
        /\ WavOf(sample).kind = "wav"
        /\ ds[1].hp.max_wav_length.set
              => Len(WavOf(sample).data) <= ds[1].hp.max_wav_length.n
        /\ ds[1].hp.max_text_length.set
              => Len(TokensOf(sample).ids) <= ds[1].hp.max_text_length.n

\* A sample was returned for a call on an entry that is too long or missing,
\* with both limits set.
C7_Witness ==
    /\ pc = "returned"
    /\ ds[1].hp.max_wav_length.set /\ ds[1].hp.max_text_length.set
    /\ TextWavLoader_getitem(ds[1], vocab, audio, first).kind = "retry"

(***************************************************************************)
(* C8: with needs_collate false, a returned sample is padded to the        *)
(* maximum: padded_text has max_text_len positions and wav max_wav_len,    *)
(* the added positions are zero, and text_lengths / wav_lengths are the    *)
(* lengths before padding.                                                 *)
(***************************************************************************)
C8_PaddedToMaximum ==
    (pc = "returned" /\ ~ds[1].hp.needs_collate) =>
        LET tseq == TokensOf(sample).ids
            wav  == WavOf(sample).data
        IN  /\ sample.form = "dict"
            /\ Len(sample.tokens) = ds[1].hp.max_text_length.n
            /\ Len(sample.wav) = ds[1].hp.max_wav_length.n
            /\ sample.text_lengths = Len(tseq)
            /\ sample.wav_lengths = Len(wav)
            /\ sample.text_lengths <= ds[1].hp.max_text_length.n
            /\ sample.wav_lengths <= ds[1].hp.max_wav_length.n
            /\ \A j \in 1..Len(sample.tokens) :
                  sample.tokens[j] = IF j <= Len(tseq) THEN tseq[j] ELSE 0
            /\ \A j \in 1..Len(sample.wav) :
                  sample.wav[j] = IF j <= Len(wav) THEN wav[j] ELSE 0

\* A sample shorter than both maxima was returned padded.
C8_Witness ==
    /\ pc = "returned"
    /\ ~ds[1].hp.needs_collate
    /\ sample.text_lengths < ds[1].hp.max_text_length.n
    /\ sample.wav_lengths < ds[1].hp.max_wav_length.n

\* Row i of the collated batch is input sample b, zero-padded.
RowIs(i, b) ==
    /\ collated.text_lengths[i] = Len(b.tokens)
    /\ collated.wav_lengths[i] = Len(b.wav)
    /\ \A j \in 1..Len(collated.padded_text[i]) :
          collated.padded_text[i][j] = IF j <= Len(b.tokens) THEN b.tokens[j] ELSE 0
    /\ \A j \in 1..Len(collated.wav[i]) :
          collated.wav[i][j] = IF j <= Len(b.wav) THEN b.wav[j] ELSE 0
    /\ Len(collated.padded_text[i]) >= Len(b.tokens)
    /\ Len(collated.wav[i]) >= Len(b.wav)
    /\ collated.filenames[i] = b.path
    /\ collated.real_text[i] = b.real_text
    /\ collated.has_conditioning =>
          /\ i <= Len(collated.conditioning)
          /\ <<collated.conditioning[i]>> = b.cond

(***************************************************************************)
(* C9: the collated batch is a permutation of the input samples, ordered   *)
(* by non-increasing text length; every field of row i (and conditioning,  *)
(* when present) comes from the same input sample, and the positions past  *)
(* the lengths are zero.                                                   *)
(***************************************************************************)
C9_CollateIsConsistentPermutation ==
    collated.status = "done" =>
        /\ Len(collated.padded_text) = Len(batch)
        /\ Len(collated.wav) = Len(batch)
        /\ \A i, j \in 1..Len(batch) :
              i < j => collated.text_lengths[i] >= collated.text_lengths[j]
        /\ \E p \in IndexOrders(Len(batch)) :
              \A i \in 1..Len(batch) : RowIs(i, batch[p[i]])

\* A full batch with conditioning was collated whose samples were not in the
\* sorted order and differ in waveform length.
C9_Witness ==
    /\ collated.status = "done"
    /\ Len(batch) = BatchSize
    /\ Len(batch[1].tokens) < Len(batch[2].tokens)
    /\ Len(batch[1].wav) # Len(batch[2].wav)
    /\ collated.has_conditioning

\* Some entry of the loader loads and is within the limits.
HasUsableEntry ==
    \E i \in RandomIndices(ds[1]) :
        TextWavLoader_getitem(ds[1], vocab, audio, i).kind = "return"

C1_NoStopCodeReturned ==
    got.status = "returned" => 0 \notin Range(got.ids)

\* get_text has failed on a text whose ids hold 0 and no 1 (character mode).
C1_Witness ==
    /\ got.status = "AssertionError"
    /\ ~use_bpe_tokenizer
    /\ 0 \in Range(Encode(vocab, Normalise(text)))

(***************************************************************************)
(* C2 as stated: whichever tokenizer is configured, get_text returns no    *)
(* sequence that holds the code 1.                                         *)
(***************************************************************************)
C2_RejectsUnkInBothModes ==
    got.status = "returned" => 1 \notin Range(got.ids)

(***************************************************************************)
(* C2 amended: with use_bpe_tokenizer set, get_text returns no sequence    *)
(* that holds the code 1 (the character tokenizer's id 1 is an ordinary    *)
(* symbol and is returned).                                                *)
(***************************************************************************)
C2_RejectsUnkInBpeMode ==
    (got.status = "returned" /\ use_bpe_tokenizer)
        => 1 \notin Range(got.ids)

\* get_text has failed in BPE mode on ids that hold 1 and no 0.
C2_Witness ==
    /\ got.status = "AssertionError"
    /\ use_bpe_tokenizer
    /\ 1 \in Range(Encode(vocab, Normalise(text)))
    /\ 0 \notin Range(Encode(vocab, Normalise(text)))

(***************************************************************************)
(* C3: in what forward builds from an accepted row, START_TEXT_TOKEN       *)
(* occurs only at the first position of the text input and STOP_TEXT_TOKEN *)
(* occurs in the text target only after the last real token.               *)
(***************************************************************************)
C3_ReservedCodesAtDesignatedPositions ==
    fwd.status = "built" =>
        /\ \A i \in 1..Len(fwd.inp) : fwd.inp[i] = START_TEXT_TOKEN => i = 1
        /\ \A i \in 1..Len(fwd.tar) : fwd.tar[i] = STOP_TEXT_TOKEN => i > fwd.real


(***************************************************************************)
(* C11: on every call of TranslationInvarianceLoss.forward with a list of  *)
(* input names and the altered index inside it, the names looked up in the *)
(* state are the configured ones, with the altered one followed by "_" and *)
(* the translation name, and the configured names are left as they were    *)
(* (so that they are the original ones at every later call).               *)
(***************************************************************************)
C11_LookupKeyIsConfiguredNamePlusTranslation ==
    [][(/\ loss.cls = "TranslationInvarianceLoss"
        /\ calls' # calls
        /\ opt.fake.islist
        /\ opt.idx + 1 <= Len(opt.fake.items))
       => /\ opt'.fake = opt.fake
          /\ \E trans_name \in TransNames :
                out'.names = [opt.fake.items EXCEPT
                                 ![opt.idx + 1] = @ \o <<"_">> \o trans_name]]_vars


(***************************************************************************)
(* C12: for each of the five pairs random_alteration can give and every    *)
(* grid x, the second function undoes the first: undo(alteration(x)) = x.  *)
(***************************************************************************)
C12_UndoInvertsAlteration ==
    geo.status = "undone" => geo.undone = geo.x

\* A grid that is not square and not uniform was rotated by 90 degrees, which
\* changed it, and the rotation was undone.
C12_Witness ==
    /\ geo.status = "undone"
    /\ geo.choice = 3
    /\ Rows(geo.x) # Cols(geo.x)
    /\ geo.altered # geo.x
    /\ \E i \in 1..Rows(geo.x), j \in 1..Cols(geo.x) : geo.x[i][j] # geo.x[1][1]


(***************************************************************************)
(* C13: forward overwrites, in every row b of mel_targets, each position   *)
(* j >= mel_lengths[b] = wav_lengths[b] // mel_length_compression with     *)
(* STOP_MEL_TOKEN and keeps each position j < mel_lengths[b]; a row with   *)
(* mel_lengths[b] at or past the width is left as it was.                  *)
(***************************************************************************)
C13_MelPaddingFromMelLength ==
    [][fwd' # fwd =>
         /\ Len(mel_targets') = Len(mel_targets)
         /\ \A b \in 1..Len(mel_targets) :
               LET mel_length == wav_lengths[b] \div mel_length_compression
               IN  /\ Len(mel_targets'[b]) = Len(mel_targets[b])
                   /\ \A j \in 0..(Len(mel_targets[b]) - 1) :
                         mel_targets'[b][j + 1] =
                             IF j >= mel_length THEN STOP_MEL_TOKEN
                             ELSE mel_targets[b][j + 1]
                   /\ mel_length >= Len(mel_targets[b])
                         => mel_targets'[b] = mel_targets[b]]_vars

\* forward has run on a batch of two rows: one padded from inside the row, by
\* a length that the compression rounds down, the other left untouched.
C13_Witness ==
    /\ fwd.status = "built"
    /\ Len(mel_targets) = 2
    /\ mel_length_compression = 2
    /\ wav_lengths[1] = 3
    /\ Len(mel_targets[1]) = 2
    /\ mel_targets[1][1] # STOP_MEL_TOKEN
    /\ mel_targets[1][2] = STOP_MEL_TOKEN
    /\ wav_lengths[2] \div mel_length_compression >= Len(mel_targets[2])
    /\ STOP_MEL_TOKEN \notin Range(mel_targets[2])


\* The inputs the geometric loss names are in the state.
GeometricInputsPresent ==
    /\ \A i \in 1..Len(opt.fake.items) : HasKey(state, opt.fake.items[i])
    /\ ~opt.real.islist
    /\ HasKey(state, opt.real.items[1])

(***************************************************************************)
(* C14: a geometric loss configured with generator_output_index k, for any *)
(* k including 0, compares state[real] with the k-th output of the         *)
(* generator, the alteration undone; without the option the generator's    *)
(* output is taken as a whole.                                             *)
(***************************************************************************)
C14_ConfiguredOutputIsSelected ==
    (/\ loss.cls = "GeometricSimilarityGeneratorLoss"
     /\ calls > 0
     /\ GeometricInputsPresent)
    => /\ out.status = "returned"
       /\ out.args[2].output = IF opt.gen_out.set THEN opt.gen_out.n ELSE Whole
       /\ out.args[2].undo # <<>>

=============================================================================
